---- MODULE Spec2Model ----
(***************************************************************************)
(* Model of the numeric planning engine of rebalance_marcos.py:            *)
(*   - Portfolio.total_value / current_weights                             *)
(*   - compute_contribution_plan   (contribution allocator)                *)
(*   - simulate_constant_plan / simulate_dca_ramp (compounding simulators) *)
(*   - required_constant_monthly_for_goal /                                *)
(*     required_growing_monthlies_for_goal (bisection goal solvers)        *)
(*                                                                         *)
(* Numbers.  The program computes in binary floating point.  Holdings are  *)
(* whole euros, target weights multiples of 1/WeightDen (a power of two),  *)
(* the allocator's monthly contribution a multiple of 1/2 (mcH counts      *)
(* halves) and the tax rate a multiple of 1/2 (taxH counts halves): on     *)
(* these the allocator's sums, differences and products by a weight are    *)
(* exact in doubles and are computed on integers and rationals (a rational *)
(* is a pair <<n, d>> in lowest terms with d > 0).  The operations whose   *)
(* double result is rounded, the current weights and their distance to the *)
(* targets, the quotient needed / total_needed and its product with the    *)
(* contribution, every operation of the ramp simulation and the bounds and *)
(* midpoints of the two bisections, are computed as the doubles compute    *)
(* them (see "Binary floating point" below).  The annual return is         *)
(* g^12 - 1 for a whole monthly growth factor g, for which                 *)
(* (1 + annual_return) ** (1/12) is g exactly.  Python's round() rounds    *)
(* half to even; RoundHalfEven and FlToInt model it.                       *)
(***************************************************************************)
EXTENDS Integers, Sequences, FiniteSets, TLC

VARIABLES pc, input, output

vars == <<pc, input, output>>

(***************************************************************************)
(* Bounds of the input domains.                                            *)
(***************************************************************************)
MaxHolding == 1

\* target weights are multiples of 2^-WeightBits, which doubles hold exactly
WeightBits == 2

WeightDen == 2^WeightBits

MaxContribHalves == 5

MaxThreshold == 1

AssetOrder == <<"A", "B", "C", "D">>

(***************************************************************************)
(* Arithmetic helpers.                                                     *)
(***************************************************************************)
Max(a, b) == IF a >= b THEN a ELSE b

Abs(a) == IF a >= 0 THEN a ELSE 0 - a

RECURSIVE GCD(_, _)
GCD(a, b) == IF b = 0 THEN a ELSE GCD(b, a % b)

Rat(n, d) == LET g == GCD(Abs(n), d) IN <<n \div g, d \div g>>

RatAdd(x, y) == Rat(x[1] * y[2] + y[1] * x[2], x[2] * y[2])

RECURSIVE SumInt(_, _)
SumInt(f, S) ==
    IF S = {} THEN 0
    ELSE LET a == CHOOSE x \in S : TRUE IN f[a] + SumInt(f, S \ {a})

RECURSIVE SumRat(_, _)
SumRat(f, S) ==
    IF S = {} THEN <<0, 1>>
    ELSE LET a == CHOOSE x \in S : TRUE IN RatAdd(f[a], SumRat(f, S \ {a}))

\* Python round(n / d) for d > 0: nearest integer, ties to the even one.
RoundHalfEven(n, d) ==
    LET q == n \div d
        r == n - q * d
    IN  IF 2 * r < d THEN q
        ELSE IF 2 * r > d THEN q + 1
        ELSE IF q % 2 = 0 THEN q ELSE q + 1

(***************************************************************************)
(* Exact arithmetic on large naturals.  A double has 53 significant bits,  *)
(* more than the 31 bits of a model integer: a large natural is the        *)
(* sequence of its base-2^15 digits, least significant first, without      *)
(* leading zeros.                                                          *)
(***************************************************************************)
\* TRUE, after its argument has been computed: the loops of the model compute
\* their state so far before they go on, as the program does
Computed(x) == x = x

\* b, computed after a: the statements of the program run in order
After(a, b) == IF Computed(a) THEN b ELSE b

LimbBits == 15

LimbBase == 2^LimbBits

\* the number of digits of a that its highest non-zero digit ends
BNTop(a) ==
    CHOOSE n \in 0..Len(a) :
        (n = 0 \/ a[n] # 0) /\ \A k \in (n + 1)..Len(a) : a[k] = 0

\* a without leading zeros
BNNorm(a) == SubSeq(a, 1, BNTop(a))

\* digit i of a, digit 1 the least significant
BNDigit(a, i) == IF i <= Len(a) THEN a[i] ELSE 0

RECURSIVE BNFromInt(_)
BNFromInt(n) ==
    IF n = 0 THEN << >> ELSE <<n % LimbBase>> \o BNFromInt(n \div LimbBase)

RECURSIVE BNToInt(_)
BNToInt(a) == IF a = << >> THEN 0 ELSE a[1] + LimbBase * BNToInt(Tail(a))

\* the carry out of digit i of a + b: a lower digit overflows and every digit
\* from there up to i passes the carry on
BNCarry(a, b, i) ==
    \E j \in 1..i :
        /\ BNDigit(a, j) + BNDigit(b, j) >= LimbBase
        /\ \A k \in (j + 1)..i : BNDigit(a, k) + BNDigit(b, k) = LimbBase - 1

BNAdd(a, b) ==
    IF a = << >> THEN b
    ELSE IF b = << >> THEN a
    ELSE BNNorm([i \in 1..(Max(Len(a), Len(b)) + 1) |->
               (BNDigit(a, i) + BNDigit(b, i)
                    + (IF BNCarry(a, b, i - 1) THEN 1 ELSE 0)) % LimbBase])

\* a * k for a small factor 0 <= k < 2^15: the low halves of the digits'
\* products plus their high halves one digit up
BNMulSmall(a, k) ==
    IF a = << >> THEN a
    ELSE BNAdd([i \in 1..Len(a) |-> (a[i] * k) % LimbBase],
          <<0>> \o [i \in 1..Len(a) |-> (a[i] * k) \div LimbBase])

\* the highest digit in which a and b of equal length differ
BNTopDiff(a, b) ==
    CHOOSE i \in 1..Len(a) :
        a[i] # b[i] /\ \A k \in (i + 1)..Len(a) : a[k] = b[k]

\* -1 or 1 as a < b or a > b in the digit i
BNCmpAt(a, b, i) == IF a[i] < b[i] THEN 0 - 1 ELSE 1

\* -1, 0 or 1 as a < b, a = b or a > b
BNCmp(a, b) ==
    IF Len(a) < Len(b) THEN 0 - 1
    ELSE IF Len(a) > Len(b) THEN 1
    ELSE IF a = b THEN 0
    ELSE BNCmpAt(a, b, BNTopDiff(a, b))

\* the borrow out of digit i of a - b: a lower digit falls short and every
\* digit from there up to i passes the borrow on
BNBorrow(a, b, i) ==
    \E j \in 1..i :
        /\ BNDigit(a, j) < BNDigit(b, j)
        /\ \A k \in (j + 1)..i : BNDigit(a, k) = BNDigit(b, k)

\* a - b for a >= b
BNSub(a, b) ==
    IF a = b THEN << >>
    ELSE BNNorm([i \in 1..Len(a) |->
               (a[i] - BNDigit(b, i)
                    - (IF BNBorrow(a, b, i - 1) THEN 1 ELSE 0)) % LimbBase])

(***************************************************************************)
(* Binary floating point.  The program's numbers are IEEE-754 doubles: the *)
(* result of every operation is the exact result rounded to 53 significant *)
(* bits, ties to the even mantissa; results below 2^-1022 are rounded to a *)
(* multiple of 2^-1074, results that round to 2^1024 or more are inf, and  *)
(* inf * 0 and inf - inf are nan.  The model holds the doubles that are    *)
(* not negative: a finite one is the record of a large natural m, without  *)
(* zero digits at its low end, and a whole e, and stands for               *)
(* m * 2^(15 * e); zero has the empty m.  FlRound is the rounding of an    *)
(* exact result and each Fl operation is the exact operation followed by   *)
(* FlRound.                                                                *)
(***************************************************************************)
MantissaBits == 53

\* the doubles are below 2^MaxExponent
MaxExponent == 1024

\* the smallest double above 0 is 2^-SubnormalBits
SubnormalBits == 1074

\* the digits below the point that an exact quotient is carried to
QuotientLimbs == 7

FlZero == [kind |-> "finite", m |-> << >>, e |-> 0]

FlInf == [kind |-> "inf", m |-> << >>, e |-> 0]

FlNaN == [kind |-> "nan", m |-> << >>, e |-> 0]

\* the number of bits of a digit n
IntBitLen(n) ==
    CHOOSE k \in 0..LimbBits : n < 2^k /\ (k = 0 \/ n >= 2^(k - 1))

BNBitLen(a) ==
    IF a = << >> THEN 0 ELSE (Len(a) - 1) * LimbBits + IntBitLen(a[Len(a)])

\* 2^k
BNPow2(k) == [i \in 1..(k \div LimbBits) |-> 0] \o <<2^(k % LimbBits)>>

\* a * LimbBase^k
BNShiftLimbs(a, k) == IF a = << >> THEN a ELSE [i \in 1..k |-> 0] \o a

\* a mod 2^s
BNLowBits(a, s) ==
    LET q == s \div LimbBits
        b == s % LimbBits
        n == IF Len(a) <= q THEN Len(a) ELSE q + 1
    IN  BNNorm([i \in 1..n |-> IF i <= q THEN a[i] ELSE a[i] % (2^b)])

\* bit s of a, bit 0 the least significant
BNBit(a, s) ==
    LET q == s \div LimbBits
    IN  IF Len(a) <= q THEN 0 ELSE (a[q + 1] \div (2^(s % LimbBits))) % 2

RECURSIVE BNMulFrom(_, _, _, _)
\* a times the digits i .. j of b in their places, i <= j
BNMulFrom(a, b, i, j) ==
    IF i = j THEN BNShiftLimbs(BNMulSmall(a, b[i]), i - 1)
    ELSE BNAdd(BNMulFrom(a, b, i, (i + j) \div 2),
               BNMulFrom(a, b, (i + j) \div 2 + 1, j))

\* the number of zero digits at the low end of a
BNLowZeros(a) ==
    CHOOSE z \in 0..Len(a) :
        (z = Len(a) \/ a[z + 1] # 0) /\ \A k \in 1..z : a[k] = 0

\* a * b
BNMul(a, b) ==
    IF a = << >> \/ b = << >> THEN << >> ELSE BNMulFrom(a, b, 1, Len(b))

RECURSIVE BNDivStep(_, _, _, _, _)
\* the digits i, i - 1, ... 1 of a divided by d, after the higher digits gave
\* the quotient digits q and the remainder r
BNDivStep(a, d, i, r, q) ==
    IF Computed(r) /\ Computed(q) /\ i = 0 THEN [q |-> BNNorm(q), r |-> r]
    ELSE BNDivStep(a, d, i - 1, (r * LimbBase + a[i]) % d,
                   <<(r * LimbBase + a[i]) \div d>> \o q)

\* quotient q and remainder r of a by a small divisor 0 < d < 2^15
BNDivSmall(a, d) == BNDivStep(a, d, Len(a), 0, << >>)

\* the finite double a * 2^(15 * e): a without its low zero digits, which
\* the exponent takes
FlPack(a, e) ==
    IF a = << >> THEN FlZero
    ELSE [kind |-> "finite", m |-> SubSeq(a, BNLowZeros(a) + 1, Len(a)),
          e |-> e + BNLowZeros(a)]

\* the bit above the highest bit of the finite double x # 0: x < 2^FlTop(x)
FlTop(x) == LimbBits * x.e + BNBitLen(x.m)

\* the digits of the finite double x in units of 2^(15 * e), e <= x.e
FlAlign(x, e) == BNShiftLimbs(x.m, x.e - e)

\* x with its s lowest bits rounded away, ties to the even mantissa: low
\* holds those bits, c compares them with half a unit, and sticky tells that
\* the exact result lies above x
FlRoundLow(x, sticky, s, low, c) ==
    IF c > 0 \/ (c = 0 /\ (sticky \/ BNBit(x, s) = 1))
    THEN BNAdd(BNSub(x, low), BNPow2(s))
    ELSE BNSub(x, low)

FlRoundBits(x, sticky, s, low) ==
    FlRoundLow(x, sticky, s, low, BNCmp(low, BNPow2(s - 1)))

FlRoundAt(x, sticky, s) ==
    IF s <= 0 THEN x ELSE FlRoundBits(x, sticky, s, BNLowBits(x, s))

\* the rounded r * 2^(15 * e), inf when it is 2^MaxExponent or more
FlFinite(r, e) ==
    IF LimbBits * e + BNBitLen(r) > MaxExponent THEN FlInf ELSE FlPack(r, e)

\* the double nearest to (a + f) * 2^(15 * e), where 0 <= f < 1 and sticky
\* tells f > 0: rounded to MantissaBits significant bits or, below
\* 2^(MantissaBits - SubnormalBits), to a multiple of 2^-SubnormalBits
FlRound(a, sticky, e) ==
    FlFinite(FlRoundAt(a, sticky,
                       Max(BNBitLen(a) - MantissaBits,
                           0 - SubnormalBits - LimbBits * e)),
             e)

\* the double of a natural n
FlFromInt(n) == FlPack(BNFromInt(n), 0)

\* x + y
FlAdd(x, y) ==
    IF x.kind = "nan" \/ y.kind = "nan" THEN FlNaN
    ELSE IF x.kind = "inf" \/ y.kind = "inf" THEN FlInf
    ELSE IF x.m = << >> THEN y
    ELSE IF y.m = << >> THEN x
    ELSE IF x.e <= y.e THEN FlRound(BNAdd(x.m, FlAlign(y, x.e)), FALSE, x.e)
    ELSE FlRound(BNAdd(FlAlign(x, y.e), y.m), FALSE, y.e)

\* x - y for x >= y, or one of them nan
FlSub(x, y) ==
    IF x.kind = "nan" \/ y.kind = "nan" THEN FlNaN
    ELSE IF y.kind = "inf" THEN FlNaN
    ELSE IF x.kind = "inf" THEN FlInf
    ELSE IF y.m = << >> THEN x
    ELSE IF x.e <= y.e THEN FlRound(BNSub(x.m, FlAlign(y, x.e)), FALSE, x.e)
    ELSE FlRound(BNSub(FlAlign(x, y.e), y.m), FALSE, y.e)

\* x * k for a natural k < 2^15
FlMulInt(x, k) ==
    IF x.kind = "nan" THEN FlNaN
    ELSE IF x.kind = "inf" THEN (IF k = 0 THEN FlNaN ELSE FlInf)
    ELSE FlRound(BNMulSmall(x.m, k), FALSE, x.e)

\* x * y
FlMul(x, y) ==
    IF x.kind = "nan" \/ y.kind = "nan" THEN FlNaN
    ELSE IF x.kind = "inf" THEN (IF y = FlZero THEN FlNaN ELSE FlInf)
    ELSE IF y.kind = "inf" THEN (IF x = FlZero THEN FlNaN ELSE FlInf)
    ELSE FlRound(BNMul(x.m, y.m), FALSE, x.e + y.e)

\* x / 2
FlHalf(x) ==
    IF x.kind # "finite" THEN x
    ELSE FlRound(BNMulSmall(x.m, LimbBase \div 2), FALSE, x.e - 1)

\* the rounded quotient x.q with the remainder x.r, in units of
\* 2^-(15 * QuotientLimbs)
FlRoundQuotient(x) == FlRound(x.q, x.r # 0, 0 - QuotientLimbs)

\* n / d for naturals n and 0 < d < 2^15
FlDiv(n, d) ==
    FlRoundQuotient(BNDivSmall(BNShiftLimbs(BNFromInt(n), QuotientLimbs), d))

\* -1, 0 or 1 as x < y, x = y or x > y, for finite x and y
FlCmpFinite(x, y) ==
    IF x.m = << >> THEN (IF y.m = << >> THEN 0 ELSE 0 - 1)
    ELSE IF y.m = << >> THEN 1
    ELSE IF FlTop(x) < FlTop(y) THEN 0 - 1
    ELSE IF FlTop(x) > FlTop(y) THEN 1
    ELSE IF x.e <= y.e THEN BNCmp(x.m, FlAlign(y, x.e))
    ELSE BNCmp(FlAlign(x, y.e), y.m)

\* x < y: false when one of them is nan
FlLess(x, y) ==
    IF x.kind = "nan" \/ y.kind = "nan" THEN FALSE
    ELSE IF x.kind = "inf" THEN FALSE
    ELSE IF y.kind = "inf" THEN TRUE
    ELSE FlCmpFinite(x, y) < 0

\* x <= y: false when one of them is nan
FlLessEq(x, y) ==
    IF x.kind = "nan" \/ y.kind = "nan" THEN FALSE ELSE ~FlLess(y, x)

\* abs(x - y)
FlAbsDiff(x, y) == IF FlLessEq(y, x) THEN FlSub(x, y) ELSE FlSub(y, x)

\* the whole part of the finite double x < 2^31
FlIntPart(x) ==
    IF x.e >= 0 THEN BNToInt(BNShiftLimbs(x.m, x.e))
    ELSE IF Len(x.m) <= 0 - x.e THEN 0
    ELSE BNToInt(SubSeq(x.m, 1 - x.e, Len(x.m)))

\* the part of the finite double x below the point, in units of 2^(15 * x.e)
FlFracPart(x) ==
    IF x.e >= 0 THEN << >>
    ELSE BNNorm(IF Len(x.m) <= 0 - x.e THEN x.m ELSE SubSeq(x.m, 1, 0 - x.e))

\* the whole number nearest to ip + f, ties to the even one; c compares f
\* with 1/2
NearestOfParts(ip, c) ==
    IF c < 0 THEN ip
    ELSE IF c > 0 THEN ip + 1
    ELSE IF ip % 2 = 0 THEN ip ELSE ip + 1

\* int(round(x)) of a finite double x < 2^31 (of inf and of nan it raises)
FlToInt(x) ==
    IF x.e >= 0 THEN FlIntPart(x)
    ELSE NearestOfParts(FlIntPart(x),
                        BNCmp(FlFracPart(x), BNPow2(LimbBits * (0 - x.e) - 1)))

(***************************************************************************)
(* Portfolio                                                               *)
(***************************************************************************)
AssetIndex(a) == CHOOSE i \in 1..Len(AssetOrder) : AssetOrder[i] = a

Keys(n) == {AssetOrder[i] : i \in 1..n}

\* Portfolio.total_value: sum of the holdings
total_value(holdings) == SumInt(holdings, DOMAIN holdings)

\* Portfolio.current_weights: the doubles v / total, or 0.0 for every asset
\* when the total is 0
current_weights(holdings) ==
    LET total == total_value(holdings)
    IN  IF total = 0 THEN [k \in DOMAIN holdings |-> FlZero]
        ELSE [k \in DOMAIN holdings |-> FlDiv(holdings[k], total)]

(***************************************************************************)
(* compute_contribution_plan                                               *)
(* holdings[a] in euros, targets[a] in units of 1/WeightDen, mcH the       *)
(* monthly contribution in halves of a euro, thr the rebalance threshold   *)
(* in units of 1/WeightDen.                                                *)
(***************************************************************************)
KeysMatchSubset(holdings, targets) == DOMAIN holdings \subseteq DOMAIN targets

\* line 34: set(holdings.keys()) != set(targets.keys()) raises
KeysMatch(holdings, targets) == DOMAIN holdings = DOMAIN targets

\* max(0.0, target_value - current_value), in units of 1/(2*WeightDen)
NeededAmount(target_w, total_afterH, current_value) ==
    Max(0, target_w * total_afterH - 2 * WeightDen * current_value)

\* the double w / WeightDen of a weight of w units of 1/WeightDen
WeightOf(w) == FlPack(BNFromInt(w * (LimbBase \div WeightDen)), 0 - 1)

\* lines 48-50: diff = abs(curr_weight - target_w); diff < rebalance_threshold,
\* in doubles; curr_weight is a double, target_w and thr count units of
\* 1/WeightDen
InBand(curr_weight, target_w, thr) ==
    FlLess(FlAbsDiff(curr_weight, WeightOf(target_w)), WeightOf(thr))

\* A threshold that suppresses the allocation inside the band.
NeededGated(target_w, total_afterH, current_value, curr_weight, thr) ==
    IF thr > 0
    THEN IF InBand(curr_weight, target_w, thr)
         THEN 0
         ELSE NeededAmount(target_w, total_afterH, current_value)
    ELSE NeededAmount(target_w, total_afterH, current_value)

\* lines 44-55: the three branches of the threshold check
Needed(target_w, total_afterH, current_value, curr_weight, thr) ==
    IF thr > 0
    THEN IF InBand(curr_weight, target_w, thr)
         THEN NeededAmount(target_w, total_afterH, current_value)
         ELSE NeededAmount(target_w, total_afterH, current_value)
    ELSE NeededAmount(target_w, total_afterH, current_value)

\* lines 42-57
needed_raw(holdings, targets, mcH, thr) ==
    LET total_afterH == 2 * total_value(holdings) + mcH
        current_w == current_weights(holdings)
    IN  [a \in DOMAIN targets |->
            Needed(targets[a], total_afterH, holdings[a],
                   IF a \in DOMAIN current_w THEN current_w[a] ELSE FlZero,
                   thr)]

\* lines 67-77: int(round(needed / total_needed * monthly_contribution)) per
\* asset, in doubles: the quotient is rounded, then the product, then
\* round() takes the nearest whole number, ties to the even one;
\* monthly_contribution is the double mcH / 2
RoundedShares(needed, mcH) ==
    LET total_needed == SumInt(needed, DOMAIN needed)
    IN  [a \in DOMAIN needed |->
            LET share == FlDiv(needed[a], total_needed)
            IN  FlToInt(FlMul(share, FlHalf(FlFromInt(mcH))))]

\* line 79: int(round(monthly_contribution - sum(contributions.values())))
Residual(contributions, mcH) ==
    RoundHalfEven(mcH - 2 * SumInt(contributions, DOMAIN contributions), 2)

BiggestLeast(contributions) ==
    CHOOSE k \in DOMAIN contributions :
        /\ \A j \in DOMAIN contributions : contributions[j] >= contributions[k]
        /\ \A j \in DOMAIN contributions :
              contributions[j] = contributions[k] => AssetIndex(k) <= AssetIndex(j)

\* line 81: max(contributions, key=...) is the first key, in iteration
\* order, that attains the largest amount
Biggest(contributions) ==
    CHOOSE k \in DOMAIN contributions :
        /\ \A j \in DOMAIN contributions : contributions[j] <= contributions[k]
        /\ \A j \in DOMAIN contributions :
              contributions[j] = contributions[k] => AssetIndex(k) <= AssetIndex(j)

\* lines 75-84
Corrected(contributions, mcH) ==
    LET diff == Residual(contributions, mcH)
    IN  IF diff # 0
        THEN LET biggest == Biggest(contributions)
             IN  [contributions EXCEPT ![biggest] = contributions[biggest] + diff]
        ELSE contributions

\* lines 61-65: the plan returned when nothing is needed
FallbackPlan(holdings, targets, mcH) ==
    [a \in DOMAIN holdings |-> Rat(mcH * targets[a], 2 * WeightDen)]

\* line 84: the corrected whole amounts, returned
ProportionalPlan(final) ==
    [status |-> "ok", path |-> "proportional",
     plan |-> [a \in DOMAIN final |-> <<final[a], 1>>]]

\* lines 59-84, for the needed amounts of lines 42-57
PlanForNeeded(holdings, targets, mcH, needed) ==
    IF SumInt(needed, DOMAIN needed) = 0
    THEN IF ~(DOMAIN holdings \subseteq DOMAIN targets)
         THEN \* line 63: targets[asset] of a missing key
              [status |-> "KeyError", path |-> "none", plan |-> << >>]
         ELSE [status |-> "ok", path |-> "fallback",
               plan |-> FallbackPlan(holdings, targets, mcH)]
    ELSE ProportionalPlan(Corrected(RoundedShares(needed, mcH), mcH))

compute_contribution_plan(holdings, targets, mcH, thr) ==
    IF ~KeysMatch(holdings, targets)
    THEN \* line 35: raise ValueError
         [status |-> "ValueError", path |-> "none", plan |-> << >>]
    ELSE IF ~(DOMAIN targets \subseteq DOMAIN holdings)
    THEN \* line 45: holdings[asset] of a missing key raises KeyError
         [status |-> "KeyError", path |-> "none", plan |-> << >>]
    ELSE PlanForNeeded(holdings, targets, mcH,
                       needed_raw(holdings, targets, mcH, thr))

(***************************************************************************)
(* The allocator's input domain and its specification.                     *)
(***************************************************************************)
RECURSIVE WeightMaps(_, _, _)
\* target maps over the first n keys of keySeq whose weights sum to at most
\* budget (in units of 1/WeightDen)
WeightMaps(keySeq, n, budget) ==
    IF n = 0 THEN {<< >>}
    ELSE UNION {{(keySeq[n] :> w) @@ m : m \in WeightMaps(keySeq, n - 1, budget - w)}
                : w \in 0..budget}

HoldingMaps(n) == [Keys(n) -> 0..MaxHolding]

\* target maps whose weights sum to 1
NormalisedWeightMaps(keySeq, n) ==
    {m \in WeightMaps(keySeq, n, WeightDen) : SumInt(m, DOMAIN m) = WeightDen}

\* holdings with the same value for each of the first n assets
EvenHoldingMaps(n) == {[k \in Keys(n) |-> h] : h \in 0..MaxHolding}

Contributions == 0..MaxContribHalves

Thresholds == {0, MaxThreshold}

\* portfolios of one or two assets, both mappings keyed by them
MatchedInputs ==
    UNION {[op : {"plan"}, holdings : HoldingMaps(n),
            targets : WeightMaps(AssetOrder, n, WeightDen),
            mcH : Contributions, thr : Thresholds]
           : n \in 1..(Len(AssetOrder) - 2)}

\* portfolios of all the assets but one, with normalised targets
NormalisedInputs ==
    [op : {"plan"}, holdings : HoldingMaps(Len(AssetOrder) - 1),
     targets : NormalisedWeightMaps(AssetOrder, Len(AssetOrder) - 1),
     mcH : Contributions, thr : Thresholds]

\* portfolios of all the assets, evenly held, with normalised targets
FullInputs ==
    [op : {"plan"}, holdings : EvenHoldingMaps(Len(AssetOrder)),
     targets : NormalisedWeightMaps(AssetOrder, Len(AssetOrder)),
     mcH : Contributions, thr : {0}]

\* portfolios whose mappings are keyed by the first nh and the first nt
\* assets, nh # nt
PrefixInputs ==
    UNION {[op : {"plan"}, holdings : EvenHoldingMaps(q[1]),
            targets : NormalisedWeightMaps(AssetOrder, q[2]),
            mcH : Contributions, thr : Thresholds]
           : q \in {r \in (0..Len(AssetOrder)) \X (1..Len(AssetOrder)) :
                       r[1] # r[2]}}

\* portfolios with as many targets as holdings, under other keys
RenamedInputs ==
    UNION {[op : {"plan"}, holdings : EvenHoldingMaps(n),
            targets : NormalisedWeightMaps(Tail(AssetOrder), n),
            mcH : Contributions, thr : Thresholds]
           : n \in 1..(Len(AssetOrder) - 1)}

PlanInputs ==
    MatchedInputs \cup NormalisedInputs \cup FullInputs \cup PrefixInputs
        \cup RenamedInputs

NoOutput == [status |-> "pending"]

InitPlan ==
    /\ pc = "ready"
    /\ input \in PlanInputs
    /\ output = NoOutput

CallComputeContributionPlan ==
    /\ pc = "ready"
    /\ input.op = "plan"
    /\ output' = compute_contribution_plan(input.holdings, input.targets,
                                           input.mcH, input.thr)
    /\ pc' = "done"
    /\ UNCHANGED input

NextPlan == CallComputeContributionPlan

SpecPlan == InitPlan /\ [][NextPlan]_vars

(***************************************************************************)
(* Claims about compute_contribution_plan (checked under SpecPlan).        *)
(***************************************************************************)
PlanDone == pc = "done" /\ input.op = "plan"

PlanOk == PlanDone /\ output.status = "ok"

InNeeded == needed_raw(input.holdings, input.targets, input.mcH, input.thr)

InRounded == RoundedShares(InNeeded, input.mcH)

PlanSum == SumRat(output.plan, DOMAIN output.plan)

\* C1: for matching key sets and monthly_contribution >= 0 the amounts of the
\* returned plan sum exactly to round(monthly_contribution), on the fallback
\* path and on the proportional path.
C1_SumIsRoundedContribution ==
    (PlanDone /\ KeysMatch(input.holdings, input.targets))
        => /\ output.status = "ok"
           /\ PlanSum = <<RoundHalfEven(input.mcH, 2), 1>>

\* C2: every per-asset amount of the returned plan is >= 0 (a contribution,
\* never a sale), the asset that receives the residual included.
C2_NoNegativeAmount ==
    PlanOk => \A a \in DOMAIN output.plan : output.plan[a][1] >= 0

\* the plan the fallback path is specified to return: the rounded
\* target-proportional amounts, the residual added to the largest
RoundedFallback(holdings, targets, mcH) ==
    LET rounded == [a \in DOMAIN holdings |->
                       RoundHalfEven(mcH * targets[a], 2 * WeightDen)]
        fixed == IF DOMAIN rounded = {} THEN rounded ELSE Corrected(rounded, mcH)
    IN  [a \in DOMAIN holdings |-> <<fixed[a], 1>>]

\* C3: when sum(needed) = 0 the plan is round(monthly_contribution * target)
\* per asset, adjusted only by the remainder correction.
C3_FallbackIsRoundedAndCorrected ==
    (PlanOk /\ SumInt(InNeeded, DOMAIN InNeeded) = 0)
        => output.plan = RoundedFallback(input.holdings, input.targets, input.mcH)

\* C4: differing key sets end in the invalid-input error and return no plan,
\* whatever the contribution and the threshold; equal key sets never end in
\* that error (and return a plan over exactly those keys).
C4_KeyMismatchIsInvalidInput ==
    PlanDone =>
        IF DOMAIN input.holdings # DOMAIN input.targets
        THEN output.status = "ValueError" /\ output.plan = << >>
        ELSE output.status = "ok" /\ DOMAIN output.plan = DOMAIN input.holdings

C4_Witness ==
    /\ PlanDone
    /\ Cardinality(DOMAIN input.holdings) = Cardinality(DOMAIN input.targets)
    /\ DOMAIN input.holdings # DOMAIN input.targets
    /\ input.mcH > 0 /\ input.thr > 0
    /\ output.status = "ValueError"

\* C9: two calls that differ only in rebalance_threshold have the same
\* outcome (the same plan or the same error).
C9_ThresholdHasNoEffect ==
    PlanDone =>
        \A t \in 0..MaxThreshold :
            compute_contribution_plan(input.holdings, input.targets,
                                      input.mcH, t) = output

\* a call with a positive threshold, one asset inside the band that needs
\* money and one outside it
C9_Witness ==
    /\ PlanOk /\ output.path = "proportional" /\ input.thr > 0
    /\ LET cw == current_weights(input.holdings)
           inBand(a) == InBand(cw[a], input.targets[a], input.thr)
       IN  /\ \E a \in DOMAIN input.targets : inBand(a) /\ InNeeded[a] > 0
           /\ \E a \in DOMAIN input.targets : ~inBand(a) /\ InNeeded[a] > 0

\* C10 as stated: with sum(needed) > 0 an asset that needs nothing is
\* allocated exactly 0, also when the rounded amounts tie.
C10_ZeroNeededGetsZero ==
    (PlanOk /\ output.path = "proportional")
        => \A a \in DOMAIN output.plan :
              InNeeded[a] = 0 => output.plan[a] = <<0, 1>>

FirstKey(S) == CHOOSE k \in S : \A j \in S : AssetIndex(k) <= AssetIndex(j)

\* the returned amount of every asset that needs nothing, given the needed
\* and the rounded amounts of the call: the whole residual when every rounded
\* amount is 0 and the asset is the first in iteration order, else 0
ZeroNeededAmounts(needed, rounded) ==
    \A a \in DOMAIN output.plan :
        needed[a] = 0 =>
            output.plan[a] =
                IF /\ \A b \in DOMAIN rounded : rounded[b] = 0
                   /\ a = FirstKey(DOMAIN rounded)
                THEN <<Residual(rounded, input.mcH), 1>>
                ELSE <<0, 1>>

\* C10 amended: with sum(needed) > 0 an asset that needs nothing is allocated
\* exactly 0, except when every rounded amount is 0 and it is the first asset
\* in iteration order: it then receives the whole residual.
C10_ZeroNeededGetsZeroUnlessAllTie ==
    (PlanOk /\ output.path = "proportional")
        => ZeroNeededAmounts(InNeeded, InRounded)

\* an asset that needs nothing, another whose rounded amount is positive,
\* and a non-zero residual to hand out
C10_Witness ==
    /\ PlanOk /\ output.path = "proportional"
    /\ \E a \in DOMAIN output.plan : InNeeded[a] = 0
    /\ \E b \in DOMAIN InRounded : InRounded[b] >= 1
    /\ Residual(InRounded, input.mcH) # 0

(***************************************************************************)
(* Compounding simulators.  annual_return is g^12 - 1 for a whole monthly  *)
(* growth factor g = 1 + r_m.                                              *)
(***************************************************************************)
MonthsPerYear == 12

\* the whole monthly growth factors of the model
Factors == {0, 1, 2}

\* line 107, line 204: 1 + r_m = (1 + annual_return) ** (1 / 12)
MonthlyFactor(annual_return) ==
    CHOOSE g \in Factors : g^MonthsPerYear = 1 + annual_return

ConstantStepGrowthFirst(value, monthly_contribution, g) ==
    value * g + monthly_contribution

\* lines 210-211: value += monthly_contribution; value *= (1 + r_m)
ConstantStep(value, monthly_contribution, g) ==
    (value + monthly_contribution) * g

\* lines 118, 212: monthly_values.append(value)
MonthAppended(v, monthly_values) ==
    [value |-> v, trace |-> Append(monthly_values, v)]

\* lines 210-212: one month, from the value and the trace in s
ConstantMonth(s, monthly_contribution, g) ==
    MonthAppended(ConstantStep(s.value, monthly_contribution, g), s.trace)

RECURSIVE ConstantLoop(_, _, _, _)
\* the n months that follow the computed value and trace in s
ConstantRest(s, monthly_contribution, g, n) ==
    IF Computed(s) THEN ConstantLoop(s, monthly_contribution, g, n) ELSE s

\* lines 209-212: n >= 1 consecutive months from the value and the trace in
\* s, the first half of them and then the rest
ConstantLoop(s, monthly_contribution, g, n) ==
    IF n = 1 THEN ConstantMonth(s, monthly_contribution, g)
    ELSE ConstantRest(ConstantLoop(s, monthly_contribution, g, n \div 2),
                      monthly_contribution, g, n - n \div 2)

\* lines 120, 214: return value, monthly_values
Simulated(r) == [status |-> "ok", value |-> r.value, trace |-> r.trace]

simulate_constant_plan(current_total, monthly_contribution, years, annual_return, extra_savings) ==
    IF years <= 0
    THEN [status |-> "ValueError", value |-> 0, trace |-> << >>]
    ELSE Simulated(ConstantLoop([value |-> current_total + extra_savings,
                                 trace |-> << >>],
                                monthly_contribution,
                                MonthlyFactor(annual_return),
                                years * MonthsPerYear))

\* line 113: initial_monthly + (final_monthly - initial_monthly)
\*               * (m / (months - 1))
\* in doubles: the difference, the quotient, their product and the sum are
\* each rounded.  initial_monthly is a natural, final_monthly the double
\* finalF; a falling ramp has a negative difference, whose product is
\* subtracted.
RampInterpolated(initialF, finalF, fraction) ==
    After(fraction,
          IF FlLessEq(initialF, finalF)
          THEN FlAdd(initialF, FlMul(FlSub(finalF, initialF), fraction))
          ELSE FlSub(initialF, FlMul(FlSub(initialF, finalF), fraction)))

RampContribution(initial_monthly, finalF, m, months) ==
    IF months = 1 THEN finalF
    ELSE RampInterpolated(FlFromInt(initial_monthly), finalF,
                          FlDiv(m, months - 1))

\* lines 115-116: value += contrib; value *= (1 + r_m)
RampStep(value, contrib, g) == FlMulInt(FlAdd(value, contrib), g)

\* lines 113-118: month m, from the value and the trace in s
RampGrown(s, contrib, g) ==
    After(contrib, MonthAppended(RampStep(s.value, contrib, g), s.trace))

RampMonth(s, initial_monthly, finalF, g, m, months) ==
    RampGrown(s, RampContribution(initial_monthly, finalF, m, months), g)

RECURSIVE RampLoop(_, _, _, _, _, _, _)
\* the n months from month m that follow the computed value and trace in s
RampRest(s, initial_monthly, finalF, g, m, n, months) ==
    IF Computed(s)
    THEN RampLoop(s, initial_monthly, finalF, g, m, n, months)
    ELSE s

\* lines 109-118: the n >= 1 consecutive months m, m + 1, ... from the value
\* and the trace in s, the first half of them and then the rest
RampLoop(s, initial_monthly, finalF, g, m, n, months) ==
    IF n = 1 THEN RampMonth(s, initial_monthly, finalF, g, m, months)
    ELSE RampRest(RampLoop(s, initial_monthly, finalF, g, m, n \div 2, months),
                  initial_monthly, finalF, g, m + n \div 2, n - n \div 2,
                  months)

\* final_monthly is the double finalF; the returned value and the trace are
\* doubles
simulate_dca_ramp(initial_monthly, finalF, years, annual_return, initial_value) ==
    IF years * MonthsPerYear <= 0
    THEN [status |-> "ValueError", value |-> FlZero, trace |-> << >>]
    ELSE Simulated(RampLoop([value |-> FlFromInt(initial_value),
                             trace |-> << >>],
                            initial_monthly, finalF,
                            MonthlyFactor(annual_return), 0,
                            years * MonthsPerYear, years * MonthsPerYear))

(***************************************************************************)
(* The simulators' input domain and their specification.                   *)
(***************************************************************************)
MaxYears == 2

MaxCurrent == 2

MaxExtra == 1

MaxMonthly == 3

\* annual returns -100%, 0% and 2^12 - 1 (monthly factors 0, 1 and 2); the
\* doubling return only over one year, which keeps the values in range
Returns(years) ==
    IF years <= 1 THEN {g^MonthsPerYear - 1 : g \in Factors} ELSE {0 - 1, 0}

YearsDomain == (0 - 1)..MaxYears

SimInputs ==
    UNION {[op : {"sim_constant"}, current_total : 0..MaxCurrent,
            monthly_contribution : 0..MaxMonthly, years : {y},
            annual_return : Returns(y), extra_savings : 0..MaxExtra]
           \cup
           [op : {"sim_ramp"}, initial_monthly : 0..MaxMonthly,
            final_monthly : 0..MaxMonthly, years : {y},
            annual_return : Returns(y), initial_value : 0..MaxCurrent]
           : y \in YearsDomain}

InitSim ==
    /\ pc = "ready"
    /\ input \in SimInputs
    /\ output = NoOutput

CallSimulateConstantPlan ==
    /\ pc = "ready"
    /\ input.op = "sim_constant"
    /\ output' = simulate_constant_plan(input.current_total,
                                        input.monthly_contribution, input.years,
                                        input.annual_return, input.extra_savings)
    /\ pc' = "done"
    /\ UNCHANGED input

CallSimulateDcaRamp ==
    /\ pc = "ready"
    /\ input.op = "sim_ramp"
    /\ output' = simulate_dca_ramp(input.initial_monthly,
                                   FlFromInt(input.final_monthly), input.years,
                                   input.annual_return, input.initial_value)
    /\ pc' = "done"
    /\ UNCHANGED input

NextSim == CallSimulateConstantPlan \/ CallSimulateDcaRamp

SpecSim == InitSim /\ [][NextSim]_vars

(***************************************************************************)
(* Claims about the simulators (checked under SpecSim).                    *)
(***************************************************************************)
SimDone == pc = "done" /\ input.op \in {"sim_constant", "sim_ramp"}

InMonths == input.years * MonthsPerYear

InFactor == MonthlyFactor(input.annual_return)

\* the contribution of month m (0-based) of the simulated ramp
InRampContribution(m) ==
    RampContribution(input.initial_monthly, FlFromInt(input.final_monthly),
                     m, InMonths)

\* the doubles x and y differ by less than 2^-30
FlNear(x, y) ==
    FlLess(FlAbsDiff(x, y), [kind |-> "finite", m |-> <<1>>, e |-> 0 - 2])

\* C8: for years > 0 both simulators return a trace of exactly years * 12
\* values, each equal to (previous value + that month's contribution) * g,
\* the first step starting from the initial value, and the returned final
\* value is the last element of the trace; the ramp's contribution of month
\* m is the linear interpolation between initial_monthly and final_monthly
\* and, at 0% return, its final value is the starting value plus the sum of
\* the contributions (both up to the rounding of the floating-point
\* operations).
C8_TraceFollowsContributeThenGrow ==
    (SimDone /\ input.years > 0) =>
        /\ output.status = "ok"
        /\ Len(output.trace) = InMonths
        /\ output.value = output.trace[InMonths]
        /\ IF input.op = "sim_constant"
           THEN \A i \in 1..InMonths :
                   output.trace[i] =
                       ((IF i = 1 THEN input.current_total + input.extra_savings
                         ELSE output.trace[i - 1])
                        + input.monthly_contribution) * InFactor
           ELSE /\ \A i \in 1..InMonths :
                      output.trace[i] =
                          FlMulInt(FlAdd(IF i = 1
                                         THEN FlFromInt(input.initial_value)
                                         ELSE output.trace[i - 1],
                                         InRampContribution(i - 1)),
                                   InFactor)
                /\ \A m \in 0..(InMonths - 1) :
                      FlNear(FlMulInt(InRampContribution(m), InMonths - 1),
                             FlFromInt(input.initial_monthly * (InMonths - 1 - m)
                                           + input.final_monthly * m))
                /\ InFactor = 1 =>
                      FlNear(FlMulInt(output.value, 2),
                             FlFromInt(2 * input.initial_value
                                           + InMonths * (input.initial_monthly
                                                           + input.final_monthly)))

\* a ramp that doubles every month, where contributing before the growth
\* and after it give different first values: (start + contribution) * 2
\* against start * 2 + contribution
C8_Witness ==
    /\ SimDone /\ input.op = "sim_ramp" /\ output.status = "ok"
    /\ InFactor = 2
    /\ input.initial_value > 0 /\ input.initial_monthly > 0
    /\ input.final_monthly # input.initial_monthly
    /\ output.trace[1]
           = FlFromInt((input.initial_value + input.initial_monthly) * 2)
    /\ output.trace[1]
           # FlFromInt(input.initial_value * 2 + input.initial_monthly)
    /\ output.value = output.trace[InMonths]

(***************************************************************************)
(* Goal solvers.  tax_rate is taxH / 2.                                    *)
(***************************************************************************)
ConstantIterations == 40

GrowingIterations == 30

MinHigh == 5000

InitialFactor == 10

ValidConstantInputsNoTax(years, annual_return, taxH) ==
    years > 0 /\ annual_return >= 0

\* lines 143-148: the three checks that raise ValueError
ValidConstantInputs(years, annual_return, taxH) ==
    /\ years > 0
    /\ annual_return >= 0
    /\ 0 <= taxH /\ taxH <= 2

\* lines 239-244: the three checks that raise ValueError
ValidGrowingInputs(years, annual_return, taxH) ==
    /\ years > 0
    /\ annual_return >= 0
    /\ 0 <= taxH /\ taxH <= 2

\* lines 167-170: twice final_value - tax_rate * max(0.0, final_value -
\* principal_total)
NetOfFinalValue(final_value, principal_total, taxH) ==
    2 * final_value - taxH * Max(0, final_value - principal_total)

\* lines 159-170 for the whole amount C_int: twice the net final value
NetOfMonthly(C_int, current_total, years, annual_return, extra_savings, taxH) ==
    NetOfFinalValue(simulate_constant_plan(current_total, C_int, years,
                                           annual_return, extra_savings).value,
                    current_total + extra_savings
                        + C_int * (years * MonthsPerYear),
                    taxH)

\* lines 152-170: C is the double CF; C_int = max(int(round(C)), 0)
net_final_with_monthly(CF, current_total, years, annual_return, extra_savings, taxH) ==
    NetOfMonthly(Max(FlToInt(CF), 0), current_total, years, annual_return,
                 extra_savings, taxH)

\* max(x, y) of the doubles x and y: x, unless y is above it
FlMax(x, y) == IF FlLess(x, y) THEN y ELSE x

\* line 178: max(objetivo_final / max(months, 1) * 2, 5000.0), in doubles
ConstantHigh(objetivo_final, months) ==
    FlMax(FlMulInt(FlDiv(objetivo_final, Max(months, 1)), 2),
          FlFromInt(MinHigh))

\* lines 181-185: the interval s narrowed to the half that net_val selects
ConstantNarrow(s, mid, net_val, p) ==
    IF net_val < 2 * p.objetivo_final
    THEN [low |-> mid, high |-> s.high,
          iters |-> s.iters + 1, sims |-> s.sims + 1]
    ELSE [low |-> s.low, high |-> mid,
          iters |-> s.iters + 1, sims |-> s.sims + 1]

\* line 181: net_val = net_final_with_monthly(mid)
ConstantProbe(s, mid, p) ==
    ConstantNarrow(s, mid,
                   net_final_with_monthly(mid, p.current_total, p.years,
                                          p.annual_return, p.extra_savings,
                                          p.taxH),
                   p)

\* lines 180-185: one iteration; mid = (low + high) / 2.0
ConstantIteration(s, p) == ConstantProbe(s, FlHalf(FlAdd(s.low, s.high)), p)

RECURSIVE ConstantBisect(_, _, _)
\* the n iterations that follow the computed interval s
ConstantBisectRest(s, n, p) ==
    IF Computed(s) THEN ConstantBisect(s, n, p) ELSE s

\* lines 179-185: n >= 1 consecutive iterations from the interval s, the
\* first half of them and then the rest; p holds the call's arguments
ConstantBisect(s, n, p) ==
    IF n = 1 THEN ConstantIteration(s, p)
    ELSE ConstantBisectRest(ConstantBisect(s, n \div 2, p), n - n \div 2, p)

ConstantResultLow(r) == FlToInt(r.low)

\* line 187: int(round(high))
ConstantResult(r) == FlToInt(r.high)

\* line 187, for the interval r that the bisection ends with
ConstantSolved(r) ==
    [status |-> "ok", value |-> ConstantResult(r),
     iters |-> r.iters, sims |-> r.sims]

required_constant_monthly_for_goal(p) ==
    IF ~ValidConstantInputs(p.years, p.annual_return, p.taxH)
    THEN [status |-> "ValueError", value |-> 0, iters |-> 0, sims |-> 0]
    ELSE IF net_final_with_monthly(FlZero, p.current_total, p.years,
                                   p.annual_return, p.extra_savings, p.taxH)
               >= 2 * p.objetivo_final
    THEN [status |-> "ok", value |-> 0, iters |-> 0, sims |-> 1]
    ELSE ConstantSolved(
             ConstantBisect([low |-> FlZero,
                             high |-> ConstantHigh(p.objetivo_final,
                                                   p.years * MonthsPerYear),
                             iters |-> 0, sims |-> 1],
                            ConstantIterations, p))

\* lines 262-265: val - tax_rate * max(0.0, val - principal_total); the gain
\* is 0.0 unless val is above principal_total, and val - 0.0 is val;
\* tax_rate is the double taxH / 2
NetAfterTax(val, principal_total, taxH) ==
    IF FlLess(principal_total, val)
    THEN FlSub(val, FlMul(FlHalf(FlFromInt(taxH)),
                          FlSub(val, principal_total)))
    ELSE val

\* lines 259-265 for the simulated value val and the ending amount finalF,
\* both doubles: contrib_total = months_total * (initial + final) / 2.0,
\* principal_total = current_total + extra_savings + contrib_total
NetOfRamp(val, finalF, p) ==
    After(val,
    NetAfterTax(val,
                FlAdd(FlFromInt(p.current_total + p.extra_savings),
                      FlHalf(FlMulInt(FlAdd(FlFromInt(p.initial_monthly),
                                            finalF),
                                      p.years * MonthsPerYear))),
                p.taxH))

\* lines 248-265: the net final value of the ramp that ends at the double
\* finalF
net_final_con_final_monthly(finalF, p) ==
    NetOfRamp(simulate_dca_ramp(p.initial_monthly, finalF, p.years,
                                p.annual_return,
                                p.current_total + p.extra_savings).value,
              finalF, p)

\* objetivo_final as a double
GoalInNetUnits(p) == FlFromInt(p.objetivo_final)

\* line 269: max(initial_monthly * 10, 5000.0)
GrowingHigh(initial_monthly) == Max(initial_monthly * InitialFactor, MinHigh)

\* the interval narrowed to the other half
GrowingNarrowSwapped(s, mid, net_val, p) ==
    IF Computed(net_val) /\ FlLess(net_val, GoalInNetUnits(p))
    THEN [low |-> s.low, high |-> mid,
          iters |-> s.iters + 1, sims |-> s.sims + 1]
    ELSE [low |-> mid, high |-> s.high,
          iters |-> s.iters + 1, sims |-> s.sims + 1]

\* lines 273-276: the interval s narrowed to the half that net_val selects
GrowingNarrow(s, mid, net_val, p) ==
    IF Computed(net_val) /\ FlLess(net_val, GoalInNetUnits(p))
    THEN [low |-> mid, high |-> s.high,
          iters |-> s.iters + 1, sims |-> s.sims + 1]
    ELSE [low |-> s.low, high |-> mid,
          iters |-> s.iters + 1, sims |-> s.sims + 1]

\* line 272: net_val = net_final_con_final_monthly(mid)
GrowingProbe(s, mid, p) ==
    After(mid, GrowingNarrow(s, mid, net_final_con_final_monthly(mid, p), p))

\* lines 271-276: one iteration; mid = (low + high) / 2.0
GrowingIteration(s, p) == GrowingProbe(s, FlHalf(FlAdd(s.low, s.high)), p)

RECURSIVE GrowingBisect(_, _, _)
\* the n iterations that follow the computed interval s
GrowingBisectRest(s, n, p) ==
    IF Computed(s) THEN GrowingBisect(s, n, p) ELSE s

\* lines 270-276: n >= 1 consecutive iterations from the interval s, the
\* first half of them and then the rest; p holds the call's arguments
GrowingBisect(s, n, p) ==
    IF n = 1 THEN GrowingIteration(s, p)
    ELSE GrowingBisectRest(GrowingBisect(s, n \div 2, p), n - n \div 2, p)

\* line 278: int(round((low + high) / 2))
GrowingResult(r) == FlToInt(FlHalf(FlAdd(r.low, r.high)))

\* the interpolated contribution cut to a whole number instead of rounded
RampMonthTruncated(initial_monthly, final_monthly_aprox, idx, months_total) ==
    (initial_monthly * (months_total - 1)
         + (final_monthly_aprox - initial_monthly) * idx)
        \div (months_total - 1)

\* lines 288-289: int(round(initial + (final - initial) * (idx / (months - 1))))
\* computed in doubles, as the simulator's line 113 is
RampMonthRounded(initial_monthly, final_monthly_aprox, idx, months_total) ==
    FlToInt(RampContribution(initial_monthly, FlFromInt(final_monthly_aprox),
                             idx, months_total))

\* lines 282-299: one entry of the annual summary
SummaryEntry(year, initial_monthly, final_monthly_aprox, months_total) ==
    LET start_idx == (year - 1) * MonthsPerYear
        end_idx == IF year * MonthsPerYear - 1 >= months_total
                   THEN months_total - 1 ELSE year * MonthsPerYear - 1
        start_month == IF months_total > 1
                       THEN RampMonthRounded(initial_monthly, final_monthly_aprox,
                                             start_idx, months_total)
                       ELSE final_monthly_aprox
        end_month == IF months_total > 1
                     THEN RampMonthRounded(initial_monthly, final_monthly_aprox,
                                           end_idx, months_total)
                     ELSE final_monthly_aprox
    IN  [year |-> year, start |-> start_month, end |-> end_month,
         avg |-> RoundHalfEven(start_month + end_month, 2)]

\* lines 281-299
resumen_anual(years, initial_monthly, final_monthly_aprox) ==
    [year \in 1..years |->
        SummaryEntry(year, initial_monthly, final_monthly_aprox,
                     years * MonthsPerYear)]

\* lines 280-301
GrowingReturn(final_monthly_aprox, r, p) ==
    [status |-> "ok", value |-> final_monthly_aprox,
     summary |-> resumen_anual(p.years, p.initial_monthly, final_monthly_aprox),
     iters |-> r.iters, sims |-> r.sims]

\* lines 278-301, for the interval r that the bisection ends with
GrowingSolved(r, p) == GrowingReturn(GrowingResult(r), r, p)

required_growing_monthlies_for_goal(p) ==
    IF ~ValidGrowingInputs(p.years, p.annual_return, p.taxH)
    THEN [status |-> "ValueError", value |-> 0, summary |-> << >>,
          iters |-> 0, sims |-> 0]
    ELSE GrowingSolved(
             GrowingBisect([low |-> FlZero,
                            high |-> FlFromInt(GrowingHigh(p.initial_monthly)),
                            iters |-> 0, sims |-> 0],
                           GrowingIterations, p),
             p)

(***************************************************************************)
(* The solvers' input domain and their specification.                      *)
(***************************************************************************)
MaxGoal == 26

MaxInitial == 1

\* a monthly amount above half of MinHigh: goals of GoalRate euros per month
\* of the horizon make the constant solver's upper bound exceed MinHigh
GoalRate == MinHigh \div 2 + MinHigh \div 50

\* an initial amount whose tenfold exceeds MinHigh
BigInitial == MinHigh \div InitialFactor + MinHigh \div 100

BigGoal(years) == Max(years, 0) * MonthsPerYear * GoalRate

\* a few euros around the multiples of half a year's months, and two goals
\* that take thousands of euros a month: one whose quotient by the months is
\* whole and one whose quotient is rounded
ConstantGoals(years) ==
    {o \in 0..MaxGoal : o % (MonthsPerYear \div 2) \in {0, 1}}
        \cup {BigGoal(years), BigGoal(years) + 1}

\* a goal of a few euros and one that the search range cannot reach
GrowingGoals(years) == {MaxGoal, BigGoal(years)}

\* an initial amount whose search range, ten times as wide, is wider than
\* 2^30 euros (and narrower than 2^31): 30 halvings leave it wider than a euro
HugeInitial == 19 * 10^7

\* the goal that the one-year ramp at 0% from HugeInitial reaches when it
\* ends above 5 euros: its contributions sum to 6 * (HugeInitial + F)
HugeGoal == MaxCurrent + (MonthsPerYear \div 2) * (HugeInitial + 5) + 1

HugeInputs ==
    [op : {"solve_growing"}, current_total : {MaxCurrent},
     objetivo_final : {HugeGoal}, years : {1}, annual_return : {0},
     initial_monthly : {HugeInitial}, extra_savings : {0}, taxH : {0, 1}]

TaxHalves == (0 - 1)..3

SolveInputs ==
    UNION {[op : {"solve_constant"}, current_total : {0, MaxCurrent},
            objetivo_final : ConstantGoals(y), years : {y},
            annual_return : Returns(y), extra_savings : {0, MaxExtra},
            taxH : TaxHalves]
           \cup
           [op : {"solve_growing"}, current_total : {MaxCurrent},
            objetivo_final : GrowingGoals(y), years : {y},
            annual_return : Returns(y),
            initial_monthly : {MaxInitial, BigInitial},
            extra_savings : {0}, taxH : TaxHalves]
           : y \in YearsDomain}
        \cup HugeInputs

InitSolve ==
    /\ pc = "ready"
    /\ input \in SolveInputs
    /\ output = NoOutput

CallRequiredConstantMonthlyForGoal ==
    /\ pc = "ready"
    /\ input.op = "solve_constant"
    /\ output' = required_constant_monthly_for_goal(input)
    /\ pc' = "done"
    /\ UNCHANGED input

CallRequiredGrowingMonthliesForGoal ==
    /\ pc = "ready"
    /\ input.op = "solve_growing"
    /\ output' = required_growing_monthlies_for_goal(input)
    /\ pc' = "done"
    /\ UNCHANGED input

NextSolve ==
    CallRequiredConstantMonthlyForGoal \/ CallRequiredGrowingMonthliesForGoal

SpecSolve == InitSolve /\ [][NextSolve]_vars

(***************************************************************************)
(* Claims about the goal solvers (checked under SpecSolve).                *)
(***************************************************************************)
SolveDone == pc = "done" /\ input.op \in {"solve_constant", "solve_growing"}

InValid ==
    /\ input.years > 0
    /\ input.annual_return >= 0
    /\ 0 <= input.taxH /\ input.taxH <= 2

\* twice the net final value of the constant plan of C euros a month
InNetConstant(C) ==
    NetOfMonthly(C, input.current_total, input.years, input.annual_return,
                 input.extra_savings, input.taxH)

\* C5: for valid inputs with current_total + extra_savings >= 0 and
\* objetivo_final >= 0, required_constant_monthly_for_goal returns the least
\* non-negative whole monthly amount whose net final value reaches the goal:
\* 0 when a 0-contribution plan already reaches it, otherwise a C that
\* reaches it while C - 1 does not.
C5_ConstantIsLeastReaching ==
    (SolveDone /\ input.op = "solve_constant" /\ InValid
       /\ input.current_total + input.extra_savings >= 0
       /\ input.objetivo_final >= 0)
        => /\ output.status = "ok"
           /\ output.value >= 0
           /\ InNetConstant(output.value) >= 2 * input.objetivo_final
           /\ output.value > 0
                 => InNetConstant(output.value - 1) < 2 * input.objetivo_final
           /\ InNetConstant(0) >= 2 * input.objetivo_final => output.value = 0

\* a taxed, growing plan that the bisection solved for several euros a month
C5_Witness ==
    /\ SolveDone /\ input.op = "solve_constant" /\ output.status = "ok"
    /\ input.taxH = 1 /\ input.annual_return > 0
    /\ output.iters = ConstantIterations
    /\ output.value > 1

\* the ramp from initial_monthly to F euros reaches the goal, net of tax
InRampReaches(F) ==
    ~FlLess(net_final_con_final_monthly(FlFromInt(F), input),
            GoalInNetUnits(input))

\* C6 as stated: for valid inputs the ramp from initial_monthly to the
\* returned ending amount F has a net final value >= objetivo_final.
C6_RampToResultReachesGoal ==
    (SolveDone /\ input.op = "solve_growing" /\ InValid)
        => output.status = "ok" /\ InRampReaches(output.value)

\* the most by which the rounded midpoint of the last search interval can
\* lie below its upper end: the interval is the search range halved 30
\* times, narrower than a euro unless the range is 2^30 euros or wider
InSearchSlack ==
    1 + GrowingHigh(input.initial_monthly) \div 2^GrowingIterations

\* C6 amended: for valid inputs the returned F is at most the upper end of
\* the search range, max(initial_monthly * 10, 5000).  When the ramp ending
\* at that upper end reaches the goal, so does the ramp ending at
\* F + 1 + floor(upper end / 2^30), which is F + 1 for every search range
\* below 2^30 euros (F itself is the rounded midpoint of the last search
\* interval and may fall short).  When it does not, F is the upper end, less
\* at most floor(upper end / 2^30), and the ramp ending at F does not reach
\* the goal.
C6_RampNearResultReachesGoal ==
    (SolveDone /\ input.op = "solve_growing" /\ InValid)
        => /\ output.status = "ok"
           /\ output.value <= GrowingHigh(input.initial_monthly)
           /\ IF InRampReaches(GrowingHigh(input.initial_monthly))
              THEN InRampReaches(output.value + InSearchSlack)
              ELSE /\ output.value + InSearchSlack - 1
                          >= GrowingHigh(input.initial_monthly)
                   /\ ~InRampReaches(output.value)

\* a search range wider than 2^30 euros whose solved ending amount and the
\* amount one euro above it both fall short of a goal that the amount two
\* euros above it reaches
C6_Witness ==
    /\ SolveDone /\ input.op = "solve_growing" /\ output.status = "ok"
    /\ InValid
    /\ InRampReaches(GrowingHigh(input.initial_monthly))
    /\ InSearchSlack = 2
    /\ output.value > 0
    /\ ~InRampReaches(output.value)
    /\ ~InRampReaches(output.value + 1)
    /\ InRampReaches(output.value + 2)

\* C7: both goal solvers end in the invalid-input error, without running a
\* simulation or a bisection step and without a result, whenever years <= 0
\* or annual_return < 0 or tax_rate is outside [0, 1]; they never end in
\* that error when the three preconditions hold.
C7_InvalidGoalInputsRejected ==
    SolveDone =>
        IF input.years <= 0 \/ input.annual_return < 0
           \/ input.taxH < 0 \/ input.taxH > 2
        THEN /\ output.status = "ValueError"
             /\ output.sims = 0 /\ output.iters = 0 /\ output.value = 0
        ELSE output.status = "ok" /\ output.sims > 0

\* a call whose only fault is a tax rate above 1
C7_Witness ==
    /\ SolveDone /\ input.op = "solve_constant"
    /\ input.years > 0 /\ input.annual_return > 0 /\ input.taxH > 2
    /\ input.objetivo_final > 0
    /\ output.status = "ValueError"

\* s is the whole number nearest to n / d (d > 0), the even one on a tie
NearestWhole(s, n, d) ==
    \/ 2 * Abs(s * d - n) < d
    \/ 2 * Abs(s * d - n) = d /\ s % 2 = 0

\* s is the rounded contribution at month idx of the linear ramp from
\* initial_monthly to the returned final amount
InRoundedRampAt(s, idx) ==
    NearestWhole(s,
                 input.initial_monthly * (InMonths - 1)
                     + (output.value - input.initial_monthly) * idx,
                 InMonths - 1)

\* C11: for valid inputs the annual summary of
\* required_growing_monthlies_for_goal has exactly one entry per year,
\* numbered 1..years in order; the start and end of entry k are the rounded
\* ramp contributions at month indices 12(k-1) and 12k-1 of the ramp from
\* initial_monthly to the returned final amount, and its avg is
\* round((start+end)/2); the first start is initial_monthly and the last end
\* is the returned final amount.
C11_SummaryFollowsRamp ==
    (SolveDone /\ input.op = "solve_growing" /\ InValid)
        => /\ output.status = "ok"
           /\ Len(output.summary) = input.years
           /\ \A k \in 1..input.years :
                 /\ output.summary[k].year = k
                 /\ InRoundedRampAt(output.summary[k].start,
                                    MonthsPerYear * (k - 1))
                 /\ InRoundedRampAt(output.summary[k].end,
                                    MonthsPerYear * k - 1)
                 /\ NearestWhole(output.summary[k].avg,
                                 output.summary[k].start
                                     + output.summary[k].end, 2)
           /\ output.summary[1].start = input.initial_monthly
           /\ output.summary[input.years].end = output.value

\* a two-year rising ramp whose first year ends on a contribution that was
\* rounded up and whose first-year average falls on a half
C11_Witness ==
    /\ SolveDone /\ input.op = "solve_growing" /\ output.status = "ok"
    /\ input.years = 2 /\ Len(output.summary) = 2
    /\ output.value > input.initial_monthly
    /\ output.summary[1].end * (InMonths - 1)
           > input.initial_monthly * (InMonths - 1)
               + (output.value - input.initial_monthly) * (MonthsPerYear - 1)
    /\ (output.summary[1].start + output.summary[1].end) % 2 = 1
    /\ output.summary[2].start > output.summary[1].end

====
